---- MODULE Spec2Model ----
(***************************************************************************)
(* Job orchestration engine of the meeting-minutes back-end: the Job       *)
(* Controller (app/api/routes/meeting.py, app/api/deps.py), the Celery     *)
(* worker tasks (app/worker/tasks.py) and the stale-job reaper             *)
(* (app/main.py), over the store of app/db/models.py.                      *)
(*                                                                         *)
(* One request_id is modelled.  A Controller call whose job is loaded by a *)
(* dependency (or by the first statement of the handler) and written by a  *)
(* later commit is two steps: the load keeps a snapshot of the row in the  *)
(* call's session, the body works on that snapshot and flushes only the    *)
(* attributes that differ from it (SQLAlchemy change tracking), without    *)
(* any predicate on the current row.  Each worker db_session() block is    *)
(* one transaction and one step.  Worker processes interleave with every   *)
(* Controller step; the coroutines of one front-end process (reaper,       *)
(* summary, chat) do not run inside the body of upload_file_chunk, which   *)
(* has no await before its commit.                                         *)
(***************************************************************************)
EXTENDS Bags, FiniteSets, Integers, Sequences, TLC

\* ------------------------------------------------------------------ bounds
NumFrontends == 2      \* front-end processes of SpecConcurrent
MaxStarts == 1         \* start calls accepted for the request_id
MaxRestarts == 1       \* further start calls accepted in SpecRestart
MaxQueue == 2          \* task messages queued or running at once
MaxRedeliver == 1      \* task messages the broker delivers a second time
MaxChat == 1           \* chat turns
MaxAnalysis == 2       \* summary and chat calls in progress at once
MaxHandles == 2        \* websockets opened
MaxTime == 3           \* latest timestamp of a speaker segment or a word
MaxSegments == 2       \* speaker segments of a diarization timeline
MaxWords == 2          \* words of a word-level transcript
MaxReply == 3          \* tokens of a reply of the AI service
MaxFiles == 3          \* files of a session directory
MaxDigits == 2         \* characters of the suffix of a filename

\* --------------------------------------------------------------- constants
Langs == {"vi", "en"}
ChunkNames == {1, 2}               \* numeric suffix of a chunk filename
EditPayloads == {"segs_empty", "segs_a"}   \* request bodies of an edit
SummaryTypes == {"topic", "speaker"}
\* the user who starts the Job and becomes its owner, and another user
Users == {"owner", "guest"}

stale_states == {"uploading", "assembling", "transcribing", "diarizing"}
cancellable_states == {"uploading", "assembling"}

VARIABLES
    job,            \* the MeetingJob row of the request_id (or NoJob)
    lastJobId,      \* last value of the MeetingJob.id sequence
    transcripts,    \* Transcription rows of the job (bag: rows have no order)
    diarized,       \* DiarizedTranscript rows of the job (unique: at most 1)
    summaries,      \* number of Summary rows per summary_type
    chat_history,   \* number of ChatHistory rows
    dirExists,      \* the job directory exists
    chunks,         \* chunk files in the job directory
    fullWav,        \* <stem>_full.wav exists in the job directory
    queue,          \* task messages on the broker (bag)
    running,        \* tasks between two of their transactions (bag)
    calls,          \* Controller calls between load and commit (bag)
    redelivered,    \* messages delivered again so far
    published,      \* statuses the last step published on job_updates
    channel,        \* per subscribed front-end process: the job_updates
                    \* messages its redis_listener has not read yet
    active_connections, \* per front-end process and request_id: the
                        \* registered websocket handles, each with the
                        \* statuses sent to it
    closed,             \* the websockets whose handler has ended, each
                        \* with the statuses sent to it
    diarization_output,         \* map_speaker_to_text: the speaker segments
    word_level_transcript,      \* map_speaker_to_text: the words
    final_diarized_transcript,  \* map_speaker_to_text: the value returned
    mapper_pc,                  \* map_speaker_to_text: idle, called, returned
    summary_content,    \* per summary type: summary_content of its
                        \* Summary rows, in the order of their insertion
    chat_call,          \* chat_with_meeting: the locals of the last call
    session_dir,        \* assemble_audio_task: the files of the session
                        \* directory in the order iterdir() yields them
    sorted_chunk_files, \* assemble_audio_task: chunk_files
    assemble_pc         \* assemble_audio_task: idle, called, sorted

vars == <<job, lastJobId, transcripts, diarized, summaries,
          chat_history, dirExists, chunks, fullWav, queue, running, calls,
          redelivered, published, channel, active_connections, closed,
          diarization_output, word_level_transcript,
          final_diarized_transcript, mapper_pc, summary_content,
          chat_call, session_dir, sorted_chunk_files, assemble_pc>>

dbVars == <<job, lastJobId, transcripts, diarized, summaries,
            chat_history>>
fsVars == <<dirExists, chunks, fullWav>>
mapperVars == <<diarization_output, word_level_transcript,
                final_diarized_transcript, mapper_pc>>
chatVars == <<summary_content, chat_call>>
listingVars == <<session_dir, sorted_chunk_files, assemble_pc>>

\* the front-end processes
Procs == 1 .. NumFrontends

NoJob == [exists |-> FALSE, id |-> 0, user_id |-> "none", status |-> "none",
          language |-> "none", error_message |-> "none"]

MeetingJob(i, l) == [exists |-> TRUE, id |-> i, user_id |-> "owner",
                     status |-> "uploading", language |-> l,
                     error_message |-> "none"]
Transcription(l, d, e) == [language |-> l, transcript_data |-> d,
                           is_edited |-> e]
DiarizedTranscript(l, d) == [language |-> l, transcript_data |-> d]

\* a task message; job_id is the Job it was sent for (assemble_audio_task
\* receives the request_id instead and looks the Job up by it)
Task(k, j, l) == [kind |-> k, job_id |-> j, language |-> l]
Run(k, j, l, cf, d) == [kind |-> k, job_id |-> j, language |-> l,
                        chunk_files |-> cf, data |-> d]

\* session.get(MeetingJob, job_id) finds the row
RowExists(jid) == job.exists /\ job.id = jid

\* the Transcription rows of a language
RowsOf(l) == {r \in BagToSet(transcripts) : r.language = l}

\* no chat_with_meeting call has returned yet
NoChat == [intent |-> "none", entity |-> "none",
           new_summary_content_raw |-> <<>>, summary_record |-> 0,
           final_response_to_user |-> <<>>]

\* the summary_content of the Summary rows that are left when the counts
\* of the rows are s: the rows of a type are deleted together
Kept(s) ==
    [t \in SummaryTypes |-> IF s[t] = 0 THEN <<>> ELSE summary_content[t]]

\* no Job, no file, no message, no call, no handle, no Summary, no chat
Idle ==
    /\ job = NoJob
    /\ lastJobId = 0
    /\ transcripts = EmptyBag
    /\ diarized = <<>>
    /\ summaries = [t \in SummaryTypes |-> 0]
    /\ chat_history = 0
    /\ dirExists = FALSE
    /\ chunks = {}
    /\ fullWav = FALSE
    /\ queue = EmptyBag
    /\ running = EmptyBag
    /\ calls = EmptyBag
    /\ redelivered = 0
    /\ published = <<>>
    /\ channel = <<>>
    /\ active_connections = [p \in Procs |-> <<>>]
    /\ closed = <<>>
    /\ summary_content = [t \in SummaryTypes |-> <<>>]
    /\ chat_call = NoChat

Init ==
    /\ Idle
    /\ session_dir = <<>>
    /\ sorted_chunk_files = <<>>
    /\ assemble_pc = "idle"
    /\ diarization_output = <<>>
    /\ word_level_transcript = <<>>
    /\ final_diarized_transcript = <<>>
    /\ mapper_pc = "idle"

\* r.publish("job_updates", ...): the broker hands the messages, in order,
\* to every listener that is subscribed
Relayed(msgs) == [p \in DOMAIN channel |-> channel[p] \o msgs]

\* the request_id of the Job and a request_id that no Job has
RequestIds == {"R", "Q"}

\* WebSocketManager.broadcast_to_job in process p, called by the handlers for
\* the request_id of the Job and by redis_listener for the request_id of the
\* message.  No handle under the request_id: nothing is done (line 67).
\* Otherwise line 73 builds one send per handle of the list without starting
\* it, and line 76 names `asyncio`, which websocket_manager.py does not
\* import (lines 1-3): the NameError is raised before a send is awaited, so
\* no handle is sent the message and the registry is left as it was
broadcast_to_job(p, request_id, message) ==
    active_connections

\* the broadcast a handler makes after its commit, in the front-end process
\* that serves the call
Broadcast(message) ==
    \E p \in Procs : active_connections' = broadcast_to_job(p, "R", message)

\* ------------------------------------------------------------- Controller

\* POST /start-bbh; the request_id is accepted whenever no row holds it;
\* `limit` bounds the number of jobs created
start_bbh(l, limit) ==
    /\ ~job.exists
    /\ lastJobId < limit
    /\ lastJobId' = lastJobId + 1
    /\ job' = MeetingJob(lastJobId + 1, l)
    /\ dirExists' = TRUE
    /\ UNCHANGED <<transcripts, diarized, summaries, chat_history, chunks,
                   fullWav, queue, running, calls, redelivered>>
    /\ published' = <<>>
    /\ channel' = Relayed(published')
    /\ UNCHANGED active_connections
    /\ summary_content' = Kept(summaries')
    /\ UNCHANGED chat_call
    /\ UNCHANGED mapperVars
    /\ UNCHANGED listingVars
    /\ UNCHANGED closed

\* the broker holds fewer than MaxQueue messages of the job
QueueRoom == BagCardinality(queue) + BagCardinality(running) < MaxQueue

\* fewer than n Controller calls are in progress
CallRoom(n) == BagCardinality(calls) < n
Begin(c) == calls' = calls (+) SetToBag({c})
End(c) == calls' = calls (-) SetToBag({c})
\* a call in progress with the row it loaded; `user` is the caller, whom
\* get_owned_job_from_path and get_owned_job_from_form (deps.py) let pass
\* only when it is the owner of the row
Call(o, a, c, last) == [op |-> o, user |-> job.user_id, job_id |-> job.id,
                        status |-> job.status, language |-> job.language,
                        arg |-> a, chunk |-> c, isLast |-> last]

\* value of MeetingJob.status after a flush that assigns `target` to a job
\* object loaded with status `loaded`: the UPDATE carries the column only
\* when the assigned value differs from the loaded one
Flushed(loaded, target) == IF loaded = target THEN job.status ELSE target

\* POST /upload-file-chunk, lines 264-272: load the job, check the status
upload_file_chunk_load(n, u, c, last) ==
    /\ CallRoom(n)
    /\ job.exists
    /\ job.status = "uploading"
    /\ Begin([Call("upload", "none", c, last) EXCEPT !.user = u])
    /\ UNCHANGED <<dbVars, fsVars, queue, running, redelivered>>
    /\ published' = <<>>
    /\ channel' = Relayed(published')
    /\ UNCHANGED active_connections
    /\ summary_content' = Kept(summaries')
    /\ UNCHANGED chat_call
    /\ UNCHANGED mapperVars
    /\ UNCHANGED listingVars
    /\ UNCHANGED closed

\* POST /upload-file-chunk, lines 274-298: write the file, commit, enqueue
upload_file_chunk_store(c) ==
    /\ c \in BagToSet(calls)
    /\ c.op = "upload"
    /\ End(c)
    /\ IF ~dirExists
       THEN \* open() raises IOError: 500, nothing committed
            UNCHANGED <<dbVars, fsVars, queue>>
       ELSE /\ chunks' = chunks \cup {c.chunk}
            /\ UNCHANGED <<dirExists, fullWav>>
            /\ IF c.isLast /\ RowExists(c.job_id)
               THEN /\ QueueRoom
                    /\ job' = [job EXCEPT !.status = "assembling"]
                    /\ queue' = queue (+) SetToBag({Task("assemble", c.job_id, c.language)})
               ELSE UNCHANGED <<job, queue>>
            /\ UNCHANGED <<lastJobId, transcripts, diarized, summaries,
                           chat_history>>
    /\ UNCHANGED <<running, redelivered>>
    /\ published' = <<>>
    /\ channel' = Relayed(published')
    /\ IF dirExists /\ c.isLast /\ RowExists(c.job_id)
       THEN Broadcast("assembling")
       ELSE UNCHANGED active_connections
    /\ summary_content' = Kept(summaries')
    /\ UNCHANGED chat_call
    /\ UNCHANGED mapperVars
    /\ UNCHANGED listingVars
    /\ UNCHANGED closed

\* get_job_ready_for_diarization (deps.py): load the job, check the status
diarize_meeting_dep(n) ==
    /\ CallRoom(n)
    /\ job.exists
    /\ job.status = "transcription_complete"
    /\ Begin(Call("diarize", "none", 0, FALSE))
    /\ UNCHANGED <<dbVars, fsVars, queue, running, redelivered>>
    /\ published' = <<>>
    /\ channel' = Relayed(published')
    /\ UNCHANGED active_connections
    /\ summary_content' = Kept(summaries')
    /\ UNCHANGED chat_call
    /\ UNCHANGED mapperVars
    /\ UNCHANGED listingVars
    /\ UNCHANGED closed

\* POST /{request_id}/diarize, handler body
diarize_meeting(c) ==
    /\ c \in BagToSet(calls)
    /\ c.op = "diarize"
    /\ End(c)
    /\ IF fullWav /\ RowExists(c.job_id)
       THEN /\ QueueRoom
            /\ job' = [job EXCEPT !.status = "diarizing"]
            /\ queue' = queue (+) SetToBag({Task("diarize", c.job_id, "none")})
       ELSE UNCHANGED <<job, queue>>
    /\ UNCHANGED <<lastJobId, transcripts, diarized, summaries,
                   chat_history, fsVars, running, redelivered>>
    /\ published' = <<>>
    /\ channel' = Relayed(published')
    /\ IF fullWav /\ RowExists(c.job_id)
       THEN Broadcast("diarizing")
       ELSE UNCHANGED active_connections
    /\ summary_content' = Kept(summaries')
    /\ UNCHANGED chat_call
    /\ UNCHANGED mapperVars
    /\ UNCHANGED listingVars
    /\ UNCHANGED closed

\* get_owned_job_from_path (deps.py) for POST /{request_id}/language
change_meeting_language_dep(n, new_language) ==
    /\ CallRoom(n)
    /\ job.exists
    /\ Begin(Call("language", new_language, 0, FALSE))
    /\ UNCHANGED <<dbVars, fsVars, queue, running, redelivered>>
    /\ published' = <<>>
    /\ channel' = Relayed(published')
    /\ UNCHANGED active_connections
    /\ summary_content' = Kept(summaries')
    /\ UNCHANGED chat_call
    /\ UNCHANGED mapperVars
    /\ UNCHANGED listingVars
    /\ UNCHANGED closed

\* POST /{request_id}/language, handler body, language already set
change_meeting_language_same(c) ==
    /\ c \in BagToSet(calls)
    /\ c.op = "language"
    /\ c.language = c.arg
    /\ End(c)
    /\ UNCHANGED <<dbVars, fsVars, queue, running, redelivered>>
    /\ published' = <<>>
    /\ channel' = Relayed(published')
    /\ UNCHANGED active_connections
    /\ summary_content' = Kept(summaries')
    /\ UNCHANGED chat_call
    /\ UNCHANGED mapperVars
    /\ UNCHANGED listingVars
    /\ UNCHANGED closed

\* POST /{request_id}/language, handler body, a Transcription is cached
change_meeting_language_cached(c) ==
    /\ c \in BagToSet(calls)
    /\ c.op = "language"
    /\ c.language # c.arg
    /\ RowExists(c.job_id)
    /\ RowsOf(c.arg) # {}
    /\ End(c)
    /\ diarized' = <<>>
    /\ job' = [job EXCEPT !.language = c.arg,
                          !.status = Flushed(c.status, "transcription_complete")]
    /\ UNCHANGED <<lastJobId, transcripts, summaries, chat_history,
                   fsVars, queue, running, redelivered>>
    /\ published' = <<>>
    /\ channel' = Relayed(published')
    /\ Broadcast(job'.status)
    /\ summary_content' = Kept(summaries')
    /\ UNCHANGED chat_call
    /\ UNCHANGED mapperVars
    /\ UNCHANGED listingVars
    /\ UNCHANGED closed

\* POST /{request_id}/language, handler body, no Transcription is cached,
\* lines 430-438: 404 without the assembled audio, else send_task
change_meeting_language_send(c) ==
    /\ c \in BagToSet(calls)
    /\ c.op = "language"
    /\ c.language # c.arg
    /\ ~(RowExists(c.job_id) /\ RowsOf(c.arg) # {})
    /\ IF ~fullWav
       THEN \* 404 before anything is sent or committed
            End(c) /\ UNCHANGED queue
       ELSE /\ QueueRoom
            /\ queue' = queue (+) SetToBag({Task("transcribe", c.job_id, c.arg)})
            /\ calls' = (calls (-) SetToBag({c}))
                            (+) SetToBag({[c EXCEPT !.op = "language_commit"]})
    /\ UNCHANGED <<dbVars, fsVars, running, redelivered>>
    /\ published' = <<>>
    /\ channel' = Relayed(published')
    /\ UNCHANGED active_connections
    /\ summary_content' = Kept(summaries')
    /\ UNCHANGED chat_call
    /\ UNCHANGED mapperVars
    /\ UNCHANGED listingVars
    /\ UNCHANGED closed

\* POST /{request_id}/language, no Transcription is cached, line 440: the
\* commit that follows send_task
change_meeting_language_new(c) ==
    /\ c \in BagToSet(calls)
    /\ c.op = "language_commit"
    /\ End(c)
    /\ IF RowExists(c.job_id)
       THEN job' = [job EXCEPT !.language = c.arg,
                               !.status = Flushed(c.status, "transcribing")]
       ELSE UNCHANGED job
    /\ UNCHANGED <<lastJobId, transcripts, diarized, summaries,
                   chat_history, fsVars, queue, running, redelivered>>
    /\ published' = <<>>
    /\ channel' = Relayed(published')
    /\ IF RowExists(c.job_id)
       THEN Broadcast(job'.status)
       ELSE UNCHANGED active_connections
    /\ summary_content' = Kept(summaries')
    /\ UNCHANGED chat_call
    /\ UNCHANGED mapperVars
    /\ UNCHANGED listingVars
    /\ UNCHANGED closed

\* get_owned_job_from_path (deps.py) for PUT /{request_id}/transcript/plain
update_plain_transcript_dep(n, segments) ==
    /\ CallRoom(n)
    /\ job.exists
    /\ Begin(Call("edit", segments, 0, FALSE))
    /\ UNCHANGED <<dbVars, fsVars, queue, running, redelivered>>
    /\ published' = <<>>
    /\ channel' = Relayed(published')
    /\ UNCHANGED active_connections
    /\ summary_content' = Kept(summaries')
    /\ UNCHANGED chat_call
    /\ UNCHANGED mapperVars
    /\ UNCHANGED listingVars
    /\ UNCHANGED closed

\* PUT /{request_id}/transcript/plain, handler body, 404: no Transcription
update_plain_transcript_404(c) ==
    /\ c \in BagToSet(calls)
    /\ c.op = "edit"
    /\ ~(RowExists(c.job_id) /\ RowsOf(c.language) # {})
    /\ End(c)
    /\ UNCHANGED <<dbVars, fsVars, queue, running, redelivered>>
    /\ published' = <<>>
    /\ channel' = Relayed(published')
    /\ UNCHANGED active_connections
    /\ summary_content' = Kept(summaries')
    /\ UNCHANGED chat_call
    /\ UNCHANGED mapperVars
    /\ UNCHANGED listingVars
    /\ UNCHANGED closed

\* PUT /{request_id}/transcript/plain, handler body; `r` is the row that
\* .first() returns for the language of the loaded job
update_plain_transcript(c, r) ==
    /\ c \in BagToSet(calls)
    /\ c.op = "edit"
    /\ RowExists(c.job_id)
    /\ r \in RowsOf(c.language)
    /\ End(c)
    /\ diarized' = <<>>
    /\ job' = IF diarized # <<>>
              THEN [job EXCEPT !.status = Flushed(c.status, "transcription_complete")]
              ELSE job
    /\ summaries' = [t \in SummaryTypes |-> 0]
    /\ chat_history' = 0
    /\ transcripts' = (transcripts (-) SetToBag({r}))
                         (+) SetToBag({Transcription(r.language, c.arg, TRUE)})
    /\ UNCHANGED <<lastJobId, fsVars, queue, running, redelivered>>
    /\ published' = <<>>
    /\ channel' = Relayed(published')
    /\ Broadcast(job'.status)
    /\ summary_content' = Kept(summaries')
    /\ UNCHANGED chat_call
    /\ UNCHANGED mapperVars
    /\ UNCHANGED listingVars
    /\ UNCHANGED closed

\* get_cancellable_job (deps.py): load the job, check the status
cancel_meeting_dep(n) ==
    /\ CallRoom(n)
    /\ job.exists
    /\ job.status \in cancellable_states
    /\ Begin(Call("cancel", "none", 0, FALSE))
    /\ UNCHANGED <<dbVars, fsVars, queue, running, redelivered>>
    /\ published' = <<>>
    /\ channel' = Relayed(published')
    /\ UNCHANGED active_connections
    /\ summary_content' = Kept(summaries')
    /\ UNCHANGED chat_call
    /\ UNCHANGED mapperVars
    /\ UNCHANGED listingVars
    /\ UNCHANGED closed

\* cancel_meeting with shutil.rmtree left out: the row and its dependents
\* are deleted, the session directory and its files stay
cancel_meeting_without_rmtree(c) ==
    /\ c \in BagToSet(calls)
    /\ c.op = "cancel"
    /\ End(c)
    /\ IF RowExists(c.job_id)
       THEN /\ job' = NoJob
            /\ transcripts' = EmptyBag
            /\ diarized' = <<>>
            /\ summaries' = [t \in SummaryTypes |-> 0]
            /\ chat_history' = 0
       ELSE UNCHANGED <<job, transcripts, diarized, summaries,
                        chat_history>>
    /\ UNCHANGED <<lastJobId, fsVars, queue, running, redelivered>>
    /\ published' = <<>>
    /\ channel' = Relayed(published')
    /\ IF RowExists(c.job_id)
       THEN Broadcast("cancelled")
       ELSE UNCHANGED active_connections
    /\ summary_content' = Kept(summaries')
    /\ UNCHANGED chat_call
    /\ UNCHANGED mapperVars
    /\ UNCHANGED listingVars
    /\ UNCHANGED closed

\* DELETE /{request_id}/cancel, handler body
cancel_meeting(c) ==
    /\ c \in BagToSet(calls)
    /\ c.op = "cancel"
    /\ End(c)
    /\ dirExists' = FALSE
    /\ chunks' = {}
    /\ fullWav' = FALSE
    /\ IF RowExists(c.job_id)
       THEN /\ job' = NoJob
            /\ transcripts' = EmptyBag
            /\ diarized' = <<>>
            /\ summaries' = [t \in SummaryTypes |-> 0]
            /\ chat_history' = 0
       ELSE UNCHANGED <<job, transcripts, diarized, summaries,
                        chat_history>>
    /\ UNCHANGED <<lastJobId, queue, running, redelivered>>
    /\ published' = <<>>
    /\ channel' = Relayed(published')
    /\ IF RowExists(c.job_id)
       THEN Broadcast("cancelled")
       ELSE UNCHANGED active_connections
    /\ summary_content' = Kept(summaries')
    /\ UNCHANGED chat_call
    /\ UNCHANGED mapperVars
    /\ UNCHANGED listingVars
    /\ UNCHANGED closed

\* the content the AI service generates for a new Summary out of
\* source_text
Generated(source_text) == <<"w", " ", source_text>>

\* _generate_and_save_summary, lines 55-66: the transcript_data a summary
\* of the type can be generated from (the diarized transcript for
\* "speaker", else a non-empty Transcription of the language of the Job)
Sources(summary_type) ==
    IF summary_type = "speaker"
    THEN {diarized[i].transcript_data : i \in DOMAIN diarized}
    ELSE {r.transcript_data : r \in RowsOf(job.language)} \ {"segs_empty"}

\* POST /{request_id}/summary and GET /{request_id}/download/document, up
\* to the await of the AI service: no Summary of the type is stored and the
\* source transcript is read (a stored Summary is returned without a write)
get_or_generate_summary(n, summary_type) ==
    /\ CallRoom(n)
    /\ job.exists
    /\ summaries[summary_type] = 0
    /\ \E source_text \in Sources(summary_type) :
          Begin(Call("summary", summary_type, 0, FALSE)
                    @@ [source_text |-> source_text])
    /\ UNCHANGED <<dbVars, fsVars, queue, running, redelivered>>
    /\ published' = <<>>
    /\ channel' = Relayed(published')
    /\ UNCHANGED active_connections
    /\ summary_content' = Kept(summaries')
    /\ UNCHANGED chat_call
    /\ UNCHANGED mapperVars
    /\ UNCHANGED listingVars
    /\ UNCHANGED closed

\* _generate_and_save_summary after the AI service has answered, lines
\* 115-121: insert the Summary and commit (the foreign key rejects the
\* insert when the job row is gone)
generate_and_save_summary(c) ==
    /\ c \in BagToSet(calls)
    /\ c.op = "summary"
    /\ End(c)
    /\ IF RowExists(c.job_id)
       THEN /\ summaries' = [summaries EXCEPT ![c.arg] = @ + 1]
            /\ summary_content' =
                  [summary_content EXCEPT
                     ![c.arg] = Append(@, Generated(c.source_text))]
       ELSE UNCHANGED <<summaries, summary_content>>
    /\ UNCHANGED <<job, lastJobId, transcripts, diarized, chat_history,
                   fsVars, queue, running, redelivered>>
    /\ published' = <<>>
    /\ channel' = Relayed(published')
    /\ UNCHANGED active_connections
    /\ UNCHANGED chat_call
    /\ UNCHANGED mapperVars
    /\ UNCHANGED listingVars
    /\ UNCHANGED closed

\* a text is a sequence of tokens: the tag "[UPDATE:x]", a whitespace
\* character, a word
Tokens == {"[UPDATE:x]", " ", "w"}
Texts == UNION {[1..n -> Tokens] : n \in 1..MaxReply}

\* what the AI service answers in one chat call: the intent and the entity
\* of the intent analysis (entity "none" is null) and the reply of the
\* task "chat"
Intents == {"edit_summary", "ask_question", "chit_chat"}
AiAnswers ==
    [intent : Intents, entity : SummaryTypes \cup {"none"}, reply : Texts]

\* the fixed replies of chat_with_meeting
AskWhichSummary == <<"which_summary">>
AskToGenerate == <<"generate_first">>
ChitChat == <<"anything_else">>

\* str.strip(): the text without leading and trailing whitespace
strip(text) ==
    LET solid == {i \in DOMAIN text : text[i] # " "}
    IN  IF solid = {}
        THEN <<>>
        ELSE SubSeq(text,
                    CHOOSE i \in solid : \A j \in solid : i <= j,
                    CHOOSE i \in solid : \A j \in solid : j <= i)

\* re.match(r'\[UPDATE:(\w+)\]\s*(.*)', raw, re.DOTALL): the text starts
\* with the tag
update_pattern_match(raw) == Len(raw) > 0 /\ raw[1] = "[UPDATE:x]"

\* match.group(2): what follows the tag and the whitespace after it
update_pattern_group2(raw) ==
    LET rest == Tail(raw)
        solid == {i \in DOMAIN rest : rest[i] # " "}
    IN  IF solid = {}
        THEN <<>>
        ELSE SubSeq(rest, CHOOSE i \in solid : \A j \in solid : i <= j,
                    Len(rest))

\* .first() of the Summary rows of the type: one of them, 0 when there is
\* none (the select has no ORDER BY)
FirstSummary(entity) ==
    IF entity = "none" \/ summaries[entity] = 0
    THEN {0}
    ELSE 1..summaries[entity]

\* POST /chat, the AI service answering a: the summary edit, the question
\* or the chit-chat, then the user message and the assistant reply are
\* appended and everything is committed (lines 625-696)
chat_with_meeting(a) ==
    /\ job.exists
    /\ chat_history < 2 * MaxChat
    /\ \E summary_record \in FirstSummary(a.entity) :
        LET edits == /\ a.intent = "edit_summary"
                     /\ summary_record # 0
                     /\ update_pattern_match(a.reply)
            new_summary_content == strip(update_pattern_group2(a.reply))
            final_response_to_user ==
                IF a.intent = "edit_summary"
                THEN IF a.entity = "none" THEN AskWhichSummary
                     ELSE IF summary_record = 0 THEN AskToGenerate
                     ELSE IF update_pattern_match(a.reply)
                          THEN new_summary_content
                          ELSE a.reply
                ELSE IF a.intent = "ask_question" THEN a.reply
                ELSE ChitChat
        IN  /\ summary_content' =
                  IF edits
                  THEN [summary_content EXCEPT
                          ![a.entity][summary_record] = new_summary_content]
                  ELSE summary_content
            /\ chat_call' =
                  [intent |-> a.intent, entity |-> a.entity,
                   new_summary_content_raw |-> a.reply,
                   summary_record |-> summary_record,
                   final_response_to_user |-> final_response_to_user]
    /\ chat_history' = chat_history + 2
    /\ UNCHANGED <<job, lastJobId, transcripts, diarized, summaries,
                   fsVars, queue, running, calls, redelivered>>
    /\ published' = <<>>
    /\ channel' = Relayed(published')
    /\ UNCHANGED active_connections
    /\ UNCHANGED mapperVars
    /\ UNCHANGED listingVars
    /\ UNCHANGED closed

\* cleanup_stale_jobs whose stale_states lack "diarizing"
cleanup_stale_jobs_without_diarizing(old) ==
    /\ job.exists
    /\ job.status \in stale_states \ {"diarizing"}
    /\ old
    /\ job' = [job EXCEPT !.status = "failed", !.error_message = "timeout"]
    /\ UNCHANGED <<lastJobId, transcripts, diarized, summaries, chat_history,
                   fsVars, queue, running, calls, redelivered>>
    /\ published' = <<>>
    /\ channel' = Relayed(published')
    /\ UNCHANGED active_connections
    /\ summary_content' = Kept(summaries')
    /\ UNCHANGED chat_call
    /\ UNCHANGED mapperVars
    /\ UNCHANGED listingVars
    /\ UNCHANGED closed

\* cleanup_stale_jobs with the status filter of its select left out: a pass
\* marks the Job failed whatever its status
cleanup_stale_jobs_any_status(old) ==
    /\ job.exists
    /\ old
    /\ job' = [job EXCEPT !.status = "failed", !.error_message = "timeout"]
    /\ UNCHANGED <<lastJobId, transcripts, diarized, summaries, chat_history,
                   fsVars, queue, running, calls, redelivered>>
    /\ published' = <<>>
    /\ channel' = Relayed(published')
    /\ UNCHANGED active_connections
    /\ summary_content' = Kept(summaries')
    /\ UNCHANGED chat_call
    /\ UNCHANGED mapperVars
    /\ UNCHANGED listingVars
    /\ UNCHANGED closed

\* cleanup_stale_jobs (main.py): one pass over the stale jobs; `old` tells
\* whether created_at is before utcnow() - 2 days when the pass runs
cleanup_stale_jobs(old) ==
    /\ job.exists
    /\ job.status \in stale_states
    /\ old
    /\ job' = [job EXCEPT !.status = "failed", !.error_message = "timeout"]
    /\ UNCHANGED <<lastJobId, transcripts, diarized, summaries, chat_history,
                   fsVars, queue, running, calls, redelivered>>
    /\ published' = <<>>
    /\ channel' = Relayed(published')
    /\ UNCHANGED active_connections
    /\ summary_content' = Kept(summaries')
    /\ UNCHANGED chat_call
    /\ UNCHANGED mapperVars
    /\ UNCHANGED listingVars
    /\ UNCHANGED closed

\* ----------------------------------------------------------- live updates

\* the websocket handles registered in the front-end processes
Handles == {h \in Procs \X RequestIds \X (1 .. MaxHandles) :
               /\ h[2] \in DOMAIN active_connections[h[1]]
               /\ h[3] \in DOMAIN active_connections[h[1]][h[2]]}

\* the messages sent so far to a registered handle
Log(h) == active_connections[h[1]][h[2]][h[3]]

\* the handles registered under the request_id of the Job
JobHandles == {h \in Handles : h[2] = "R"}

\* redis_listener (main.py), lines 32-35, started by lifespan: the listener
\* of process p subscribes to job_updates
redis_listener_subscribe(p) ==
    /\ p \notin DOMAIN channel
    /\ channel' = channel @@ (p :> <<>>)
    /\ UNCHANGED <<dbVars, fsVars, queue, running, calls, redelivered,
                   active_connections>>
    /\ published' = <<>>
    /\ summary_content' = Kept(summaries')
    /\ UNCHANGED chat_call
    /\ UNCHANGED mapperVars
    /\ UNCHANGED listingVars
    /\ UNCHANGED closed

\* redis_listener (main.py), lines 36-45: the listener of process p reads
\* its next message and broadcasts it before it reads another
redis_listener(p) ==
    /\ p \in DOMAIN channel
    /\ channel[p] # <<>>
    /\ channel' = [channel EXCEPT ![p] = Tail(@)]
    /\ active_connections' = broadcast_to_job(p, "R", Head(channel[p]))
    /\ UNCHANGED <<dbVars, fsVars, queue, running, calls, redelivered>>
    /\ published' = <<>>
    /\ summary_content' = Kept(summaries')
    /\ UNCHANGED chat_call
    /\ UNCHANGED mapperVars
    /\ UNCHANGED listingVars
    /\ UNCHANGED closed

\* a disconnect that removes the websocket and leaves the key of its
\* request_id in place
disconnect_keeping_key(p, request_id, i) ==
    LET connections == active_connections[p][request_id]
    IN  [active_connections EXCEPT
            ![p][request_id] = SubSeq(connections, 1, i - 1)
                                 \o SubSeq(connections, i + 1, Len(connections))]

\* WebSocketManager.disconnect, lines 47-51: the websocket is removed from
\* the list of its request_id, and the key with it when the list is empty
disconnect(p, request_id, i) ==
    LET connections == active_connections[p][request_id]
        left == SubSeq(connections, 1, i - 1)
                    \o SubSeq(connections, i + 1, Len(connections))
    IN  IF left = <<>>
        THEN [active_connections EXCEPT
                 ![p] = [k \in DOMAIN @ \ {request_id} |-> @[k]]]
        ELSE [active_connections EXCEPT ![p][request_id] = left]

\* websocket_endpoint, lines 348-361 and 367-368: accept, register the
\* handle under the request_id in process p, send the current status of the
\* Job of the request_id when there is one.  _format_job_status, line 190,
\* names DiarizedSegment, which meeting.py does not import: for a Job with a
\* diarized transcript the NameError ends the handler before anything is
\* sent, and its `finally` removes the handle it has just registered
websocket_endpoint(p, request_id) ==
    LET found == request_id = "R" /\ job.exists
        initial_status == IF found THEN <<job.status>> ELSE <<>>
    IN
    /\ Cardinality(Handles) + Len(closed) < MaxHandles
    /\ IF found /\ diarized # <<>>
       THEN /\ UNCHANGED active_connections
            /\ closed' = Append(closed, [process |-> p,
                                         request_id |-> request_id,
                                         sent |-> <<>>])
       ELSE /\ active_connections' =
                  IF request_id \in DOMAIN active_connections[p]
                  THEN [active_connections EXCEPT
                           ![p][request_id] = Append(@, initial_status)]
                  ELSE [active_connections EXCEPT
                           ![p] = @ @@ (request_id :> <<initial_status>>)]
            /\ UNCHANGED closed
    /\ UNCHANGED <<dbVars, fsVars, queue, running, calls, redelivered,
                   channel>>
    /\ published' = <<>>
    /\ summary_content' = Kept(summaries')
    /\ UNCHANGED chat_call
    /\ UNCHANGED mapperVars
    /\ UNCHANGED listingVars

\* websocket_endpoint, lines 363-368: the client of handle i under the
\* request_id in process p has gone, receive_text raises WebSocketDisconnect
\* and the `finally` calls disconnect
websocket_disconnect(p, request_id, i) ==
    /\ <<p, request_id, i>> \in Handles
    /\ active_connections' = disconnect(p, request_id, i)
    /\ closed' = Append(closed, [process |-> p, request_id |-> request_id,
                                 sent |-> Log(<<p, request_id, i>>)])
    /\ UNCHANGED <<dbVars, fsVars, queue, running, calls, redelivered,
                   channel>>
    /\ published' = <<>>
    /\ summary_content' = Kept(summaries')
    /\ UNCHANGED chat_call
    /\ UNCHANGED mapperVars
    /\ UNCHANGED listingVars

\* ------------------------------------------------------------------ mapper

Speakers == {"A", "B"}
Times == 0 .. MaxTime

\* the sequences of at most n elements of S
SeqsUpTo(S, n) == UNION {[1 .. k -> S] : k \in 0 .. n}

\* a speaker segment of the diarizer: it does not end before it starts
SpeakerSegments ==
    {g \in [speaker : Speakers, start_s : Times, end_s : Times] :
        g.start_s <= g.end_s}

\* a word-level transcript; the text of a word stands for its position in
\* the transcript
WordTimelines ==
    {[i \in DOMAIN f |-> [word |-> i, start |-> f[i][1], end |-> f[i][2]]] :
        f \in SeqsUpTo({iv \in Times \X Times : iv[1] <= iv[2]}, MaxWords)}

\* twice word_start + (word_end - word_start) / 2, to stay in the integers
Center2(w) == 2 * w.start + (w.end - w.start)

\* the inner loop without the test that skips a word centred before the
\* segment
ScanAssigningEarlyWords(seg, words, idx, segment_words) ==
    LET RECURSIVE Go(_, _)
        Go(i, acc) ==
            IF i > Len(words) THEN [idx |-> i, segment_words |-> acc]
            ELSE IF Center2(words[i]) <= 2 * seg.end_s
                 THEN Go(i + 1, Append(acc, words[i].word))
                 ELSE [idx |-> i, segment_words |-> acc]
    IN Go(idx, segment_words)

\* the inner loop with `<` in place of `<=` in the test against the end of
\* the segment
ScanExcludingEnd(seg, words, idx, segment_words) ==
    LET RECURSIVE Go(_, _)
        Go(i, acc) ==
            IF i > Len(words) THEN [idx |-> i, segment_words |-> acc]
            ELSE IF Center2(words[i]) < 2 * seg.start_s
                 THEN Go(i + 1, acc)
                 ELSE IF Center2(words[i]) < 2 * seg.end_s
                      THEN Go(i + 1, Append(acc, words[i].word))
                      ELSE [idx |-> i, segment_words |-> acc]
    IN Go(idx, segment_words)

\* map_speaker_to_text, lines 53-75: the inner loop over the words from
\* word_iterator_idx on, for one speaker segment
Scan(seg, words, idx, segment_words) ==
    LET RECURSIVE Go(_, _)
        Go(i, acc) ==
            IF i > Len(words) THEN [idx |-> i, segment_words |-> acc]
            ELSE IF Center2(words[i]) < 2 * seg.start_s
                 THEN Go(i + 1, acc)
                 ELSE IF Center2(words[i]) <= 2 * seg.end_s
                      THEN Go(i + 1, Append(acc, words[i].word))
                      ELSE [idx |-> i, segment_words |-> acc]
    IN Go(idx, segment_words)

\* the outer loop with a word pointer that starts again at the first word
\* for every speaker segment
map_speaker_to_text_rescanning(d, w) ==
    LET RECURSIVE Go(_, _)
        Go(k, out) ==
            IF k > Len(d) THEN out
            ELSE LET r == Scan(d[k], w, 1, <<>>) IN
                 Go(k + 1,
                    IF r.segment_words = <<>> THEN out
                    ELSE Append(out, [speaker |-> d[k].speaker,
                                      text |-> r.segment_words,
                                      start_time |-> d[k].start_s,
                                      end_time |-> d[k].end_s]))
    IN IF d = <<>> \/ w = <<>> THEN <<>> ELSE Go(1, <<>>)

\* map_speaker_to_text (mapper.py): one pass over the speaker segments with
\* one word pointer; a segment without words emits nothing
map_speaker_to_text(d, w) ==
    LET RECURSIVE Go(_, _, _)
        Go(k, idx, out) ==
            IF k > Len(d) THEN out
            ELSE LET r == Scan(d[k], w, idx, <<>>) IN
                 Go(k + 1, r.idx,
                    IF r.segment_words = <<>> THEN out
                    ELSE Append(out, [speaker |-> d[k].speaker,
                                      text |-> r.segment_words,
                                      start_time |-> d[k].start_s,
                                      end_time |-> d[k].end_s]))
    IN IF d = <<>> \/ w = <<>> THEN <<>> ELSE Go(1, 1, <<>>)

\* a call of map_speaker_to_text on any two timelines within the bounds
InitMapper ==
    /\ Idle
    /\ diarization_output \in SeqsUpTo(SpeakerSegments, MaxSegments)
    /\ word_level_transcript \in WordTimelines
    /\ final_diarized_transcript = <<>>
    /\ mapper_pc = "called"
    /\ session_dir = <<>>
    /\ sorted_chunk_files = <<>>
    /\ assemble_pc = "idle"

\* a call of map_speaker_to_text on a timeline of one speaker with up to
\* MaxSegments + 1 segments and any word-level transcript within the bounds
InitBoundary ==
    /\ Idle
    /\ diarization_output
          \in SeqsUpTo({g \in SpeakerSegments : g.speaker = "A"}, MaxSegments + 1)
    /\ word_level_transcript \in WordTimelines
    /\ final_diarized_transcript = <<>>
    /\ mapper_pc = "called"
    /\ session_dir = <<>>
    /\ sorted_chunk_files = <<>>
    /\ assemble_pc = "idle"

\* the call returns
map_speaker_to_text_return ==
    /\ mapper_pc = "called"
    /\ final_diarized_transcript' =
          map_speaker_to_text(diarization_output, word_level_transcript)
    /\ mapper_pc' = "returned"
    /\ UNCHANGED <<dbVars, fsVars, queue, running, calls, redelivered,
                   published, channel, active_connections, closed,
                   diarization_output, word_level_transcript, chatVars,
                   listingVars>>

\* ------------------------------------------------------- chunk file order

\* a filename is <prefix>_<suffix>.<ext>; the suffix is what follows the
\* last underscore of the stem, a string of at most MaxDigits characters
Characters == {"0", "1", "2", "x"}
Suffixes == UNION {[1 .. n -> Characters] : n \in 1 .. MaxDigits}
Filenames == [prefix : {"a", "b"}, suffix : Suffixes]

\* str.isdigit() of the suffix
isdigit(suffix) ==
    suffix # <<>> /\ \A i \in DOMAIN suffix : suffix[i] \in {"0", "1", "2"}

\* int() of a suffix of digits
int(suffix) ==
    LET value == [c \in {"0", "1", "2"} |->
                     CASE c = "0" -> 0 [] c = "1" -> 1 [] c = "2" -> 2]
        RECURSIVE Go(_)
        Go(k) == IF k = 0 THEN 0 ELSE 10 * Go(k - 1) + value[suffix[k]]
    IN  Go(Len(suffix))

\* the files of the listing that pass the filter of line 240
ChunksOf(listing) ==
    LET RECURSIVE Go(_)
        Go(k) == IF k = 0 THEN <<>>
                 ELSE IF isdigit(listing[k].suffix)
                      THEN Append(Go(k - 1), listing[k])
                      ELSE Go(k - 1)
    IN  Go(Len(listing))

\* sorted(files, key=lambda f: int(f.stem.split('_')[-1])): ascending key,
\* files of equal key in the order they have in `files` (sorted is stable)
sorted(files) ==
    LET RECURSIVE Insert(_, _), Go(_)
        Insert(f, sq) ==
            IF sq = <<>> THEN <<f>>
            ELSE IF int(f.suffix) < int(Head(sq).suffix)
                 THEN <<f>> \o sq
                 ELSE <<Head(sq)>> \o Insert(f, Tail(sq))
        Go(k) == IF k = 0 THEN <<>> ELSE Insert(files[k], Go(k - 1))
    IN  Go(Len(files))

\* the listings of at most MaxFiles files: a directory holds a filename
\* once, and iterdir() yields the files in an order of its own
Listings ==
    {l \in SeqsUpTo(Filenames, MaxFiles) :
        \A i \in DOMAIN l, j \in DOMAIN l : i # j => l[i] # l[j]}

\* assemble_audio_task is called on a session directory
InitAssemble ==
    /\ Idle
    /\ diarization_output = <<>>
    /\ word_level_transcript = <<>>
    /\ final_diarized_transcript = <<>>
    /\ mapper_pc = "idle"
    /\ session_dir \in Listings
    /\ sorted_chunk_files = <<>>
    /\ assemble_pc = "called"

\* assemble_audio_task, lines 239-242: chunk_files
assemble_audio_task_sorted ==
    /\ assemble_pc = "called"
    /\ sorted_chunk_files' = sorted(ChunksOf(session_dir))
    /\ assemble_pc' = "sorted"
    /\ UNCHANGED <<dbVars, fsVars, queue, running, calls, redelivered,
                   published, channel, active_connections, closed,
                   mapperVars, chatVars, session_dir>>

\* ----------------------------------------------------------------- workers

Unqueue(t) == queue (-) SetToBag({t})

\* the end of a task execution: the message is acknowledged, or (late
\* acknowledgement, celery_app.py) the broker delivers it again
Finish(q, t, ack) ==
    /\ ~ack => redelivered < MaxRedeliver
    /\ redelivered' = IF ack THEN redelivered ELSE redelivered + 1
    /\ queue' = IF ack THEN q ELSE q (+) SetToBag({t})

\* publish_job_update after a lookup of the job: nothing without the job
Published(found, status) == IF found THEN <<status>> ELSE <<>>

\* an except branch that records the message and leaves the status as it is
Failed_message_only(found, msg) ==
    IF found THEN [job EXCEPT !.error_message = msg]
    ELSE job

\* the except branch of a task: the job, when found, becomes failed
Failed(found, msg) ==
    IF found THEN [job EXCEPT !.status = "failed", !.error_message = msg]
    ELSE job

\* a transcript_data value that is an empty list
IsEmpty(d) == d = "segs_empty"

\* assemble_audio_task, lines 239-249: list and decode the chunk files
assemble_audio_task_list(t) ==
    /\ t \in BagToSet(queue)
    /\ t.kind = "assemble"
    /\ dirExists
    /\ chunks # {}
    /\ queue' = Unqueue(t)
    /\ running' = running (+) SetToBag({Run("assemble", t.job_id, t.language, chunks, "none")})
    /\ UNCHANGED <<dbVars, fsVars, calls, redelivered>>
    /\ published' = <<>>
    /\ channel' = Relayed(published')
    /\ UNCHANGED active_connections
    /\ summary_content' = Kept(summaries')
    /\ UNCHANGED chat_call
    /\ UNCHANGED mapperVars
    /\ UNCHANGED listingVars
    /\ UNCHANGED closed

\* assemble_audio_task, lines 239-249 raise (no directory, no chunk file, or
\* a chunk that does not decode), then lines 268-277
assemble_audio_task_list_fail(t, ack) ==
    /\ t \in BagToSet(queue)
    /\ t.kind = "assemble"
    /\ job' = Failed(job.exists, "assembly")
    /\ Finish(Unqueue(t), t, ack)
    /\ UNCHANGED <<lastJobId, transcripts, diarized, summaries,
                   chat_history, fsVars, running, calls>>
    /\ published' = Published(job.exists, "failed")
    /\ channel' = Relayed(published')
    /\ UNCHANGED active_connections
    /\ summary_content' = Kept(summaries')
    /\ UNCHANGED chat_call
    /\ UNCHANGED mapperVars
    /\ UNCHANGED listingVars
    /\ UNCHANGED closed

\* the chunk files os.remove deletes before it raises on a missing one
\* (ascending suffix, the order of chunk_files)
Removed(chunk_files) ==
    LET missing == chunk_files \ chunks IN
    IF missing = {} THEN chunk_files
    ELSE {c \in chunk_files : \A m \in missing : c < m}

\* assemble_audio_task, lines 251-277: export, commit, remove, dispatch
assemble_audio_task(r, ack) ==
    LET t == Task("assemble", r.job_id, r.language) IN
    /\ r \in BagToSet(running)
    /\ r.kind = "assemble"
    /\ running' = running (-) SetToBag({r})
    /\ IF ~job.exists
       THEN /\ UNCHANGED <<job, fsVars>>
            /\ Finish(queue, t, ack)
       ELSE IF ~dirExists
       THEN /\ job' = Failed(TRUE, "assembly")
            /\ UNCHANGED fsVars
            /\ Finish(queue, t, ack)
       ELSE /\ fullWav' = TRUE
            /\ chunks' = chunks \ Removed(r.chunk_files)
            /\ UNCHANGED dirExists
            /\ IF r.chunk_files \subseteq chunks
               THEN /\ job' = [job EXCEPT !.status = "transcribing"]
                    /\ Finish(queue (+) SetToBag({Task("transcribe", job.id, r.language)}),
                              t, ack)
               ELSE /\ job' = Failed(TRUE, "assembly")
                    /\ Finish(queue, t, ack)
    /\ UNCHANGED <<lastJobId, transcripts, diarized, summaries,
                   chat_history, calls>>
    /\ published' =
          IF ~job.exists THEN <<>>
          ELSE IF ~dirExists THEN <<"failed">>
          ELSE IF r.chunk_files \subseteq chunks THEN <<"transcribing">>
          ELSE <<"transcribing", "failed">>
    /\ channel' = Relayed(published')
    /\ UNCHANGED active_connections
    /\ summary_content' = Kept(summaries')
    /\ UNCHANGED chat_call
    /\ UNCHANGED mapperVars
    /\ UNCHANGED listingVars
    /\ UNCHANGED closed

\* run_transcription_task, lines 91-123: transcribe, insert, commit
run_transcription_task(t, ack) ==
    /\ t \in BagToSet(queue)
    /\ t.kind = "transcribe"
    /\ fullWav
    /\ IF RowExists(t.job_id)
       THEN /\ transcripts' = transcripts (+) SetToBag({Transcription(t.language, "asr", FALSE)})
            /\ job' = [job EXCEPT !.status = "transcription_complete",
                                  !.error_message = "none"]
       ELSE UNCHANGED <<job, transcripts>>
    /\ Finish(Unqueue(t), t, ack)
    /\ UNCHANGED <<lastJobId, diarized, summaries, chat_history, fsVars,
                   running, calls>>
    /\ published' = Published(RowExists(t.job_id), "transcription_complete")
    /\ channel' = Relayed(published')
    /\ UNCHANGED active_connections
    /\ summary_content' = Kept(summaries')
    /\ UNCHANGED chat_call
    /\ UNCHANGED mapperVars
    /\ UNCHANGED listingVars
    /\ UNCHANGED closed

\* run_transcription_task raises (ASR error or empty output), lines 125-134
run_transcription_task_fail(t, ack) ==
    /\ t \in BagToSet(queue)
    /\ t.kind = "transcribe"
    /\ job' = Failed(RowExists(t.job_id), "transcription")
    /\ Finish(Unqueue(t), t, ack)
    /\ UNCHANGED <<lastJobId, transcripts, diarized, summaries,
                   chat_history, fsVars, running, calls>>
    /\ published' = Published(RowExists(t.job_id), "failed")
    /\ channel' = Relayed(published')
    /\ UNCHANGED active_connections
    /\ summary_content' = Kept(summaries')
    /\ UNCHANGED chat_call
    /\ UNCHANGED mapperVars
    /\ UNCHANGED listingVars
    /\ UNCHANGED closed

\* run_transcription_task raises, lines 125-133, in two steps.  First step:
\* inside the db_session() block the job is loaded, status and
\* error_message are assigned in the session, and the update is published;
\* the block has not committed yet
run_transcription_task_fail_publish(t) ==
    /\ t \in BagToSet(queue)
    /\ t.kind = "transcribe"
    /\ RowExists(t.job_id)
    /\ queue' = Unqueue(t)
    /\ running' = running (+) SetToBag({Run("transcribe", t.job_id, t.language, {}, "none")})
    /\ UNCHANGED <<dbVars, fsVars, calls, redelivered>>
    /\ published' = <<"failed">>
    /\ channel' = Relayed(published')
    /\ UNCHANGED active_connections
    /\ summary_content' = Kept(summaries')
    /\ UNCHANGED chat_call
    /\ UNCHANGED mapperVars
    /\ UNCHANGED listingVars
    /\ UNCHANGED closed

\* second step: the db_session() block ends, session.commit() (line 57)
\* writes status and error_message, and the task raises (line 134)
run_transcription_task_fail_commit(r, ack) ==
    /\ r \in BagToSet(running)
    /\ r.kind = "transcribe"
    /\ running' = running (-) SetToBag({r})
    /\ job' = Failed(RowExists(r.job_id), "transcription")
    /\ Finish(queue, Task("transcribe", r.job_id, r.language), ack)
    /\ UNCHANGED <<lastJobId, transcripts, diarized, summaries,
                   chat_history, fsVars, calls>>
    /\ published' = <<>>
    /\ channel' = Relayed(published')
    /\ UNCHANGED active_connections
    /\ summary_content' = Kept(summaries')
    /\ UNCHANGED chat_call
    /\ UNCHANGED mapperVars
    /\ UNCHANGED listingVars
    /\ UNCHANGED closed

\* run_diarization_task, lines 148-166: read the active-language words;
\* `r` is the row that .first() returns
run_diarization_task_read(t, r) ==
    /\ t \in BagToSet(queue)
    /\ t.kind = "diarize"
    /\ RowExists(t.job_id)
    /\ r \in RowsOf(job.language)
    /\ ~IsEmpty(r.transcript_data)
    /\ queue' = Unqueue(t)
    /\ running' = running (+) SetToBag({Run("diarize", t.job_id, r.language, {},
                                            r.transcript_data)})
    /\ UNCHANGED <<dbVars, fsVars, calls, redelivered>>
    /\ published' = <<>>
    /\ channel' = Relayed(published')
    /\ UNCHANGED active_connections
    /\ summary_content' = Kept(summaries')
    /\ UNCHANGED chat_call
    /\ UNCHANGED mapperVars
    /\ UNCHANGED listingVars
    /\ UNCHANGED closed

\* run_diarization_task, lines 148-166: the job is gone (return) or it has
\* no usable source transcript (raise, then lines 198-207)
run_diarization_task_read_fail(t, ack) ==
    /\ t \in BagToSet(queue)
    /\ t.kind = "diarize"
    /\ \/ ~RowExists(t.job_id) /\ UNCHANGED job
       \/ /\ RowExists(t.job_id)
          /\ \/ RowsOf(job.language) = {}
             \/ \E r \in RowsOf(job.language) : IsEmpty(r.transcript_data)
          /\ job' = Failed(TRUE, "diarization")
    /\ Finish(Unqueue(t), t, ack)
    /\ UNCHANGED <<lastJobId, transcripts, diarized, summaries,
                   chat_history, fsVars, running, calls>>
    /\ published' = Published(RowExists(t.job_id), "failed")
    /\ channel' = Relayed(published')
    /\ UNCHANGED active_connections
    /\ summary_content' = Kept(summaries')
    /\ UNCHANGED chat_call
    /\ UNCHANGED mapperVars
    /\ UNCHANGED listingVars
    /\ UNCHANGED closed

\* run_diarization_task, lines 168-196: diarize, map, insert, commit.  The
\* insert hits the unique constraint of DiarizedTranscript.meeting_job_id
\* when a row exists, and the except branch then marks the job failed
run_diarization_task(r, ack) ==
    /\ r \in BagToSet(running)
    /\ r.kind = "diarize"
    /\ fullWav
    /\ r.data = "asr"
    /\ running' = running (-) SetToBag({r})
    /\ IF ~RowExists(r.job_id)
       THEN UNCHANGED <<job, diarized>>
       ELSE IF diarized # <<>>
       THEN /\ job' = Failed(TRUE, "diarization")
            /\ UNCHANGED diarized
       ELSE /\ diarized' = <<DiarizedTranscript(r.language, r.data)>>
            /\ job' = [job EXCEPT !.status = "completed",
                                  !.error_message = "none"]
    /\ Finish(queue, Task("diarize", r.job_id, "none"), ack)
    /\ UNCHANGED <<lastJobId, transcripts, summaries, chat_history,
                   fsVars, calls>>
    /\ published' = Published(RowExists(r.job_id),
                              IF diarized # <<>> THEN "failed" ELSE "completed")
    /\ channel' = Relayed(published')
    /\ UNCHANGED active_connections
    /\ summary_content' = Kept(summaries')
    /\ UNCHANGED chat_call
    /\ UNCHANGED mapperVars
    /\ UNCHANGED listingVars
    /\ UNCHANGED closed

\* run_diarization_task, lines 168-174 raise (diarizer error, no speaker
\* segment, or the mapper on edited segments), then lines 198-207
run_diarization_task_fail(r, ack) ==
    /\ r \in BagToSet(running)
    /\ r.kind = "diarize"
    /\ running' = running (-) SetToBag({r})
    /\ job' = Failed(RowExists(r.job_id), "diarization")
    /\ Finish(queue, Task("diarize", r.job_id, "none"), ack)
    /\ UNCHANGED <<lastJobId, transcripts, diarized, summaries,
                   chat_history, fsVars, calls>>
    /\ published' = Published(RowExists(r.job_id), "failed")
    /\ channel' = Relayed(published')
    /\ UNCHANGED active_connections
    /\ summary_content' = Kept(summaries')
    /\ UNCHANGED chat_call
    /\ UNCHANGED mapperVars
    /\ UNCHANGED listingVars
    /\ UNCHANGED closed

\* ------------------------------------------------------------ specification

\* start, upload and diarize, with at most n calls in progress at once
Stages(n) ==
    \/ \E l \in Langs : start_bbh(l, MaxStarts)
    \/ \E c \in ChunkNames, last \in BOOLEAN :
          upload_file_chunk_load(n, "owner", c, last)
    \/ \E c \in BagToSet(calls) : upload_file_chunk_store(c)
    \/ diarize_meeting_dep(n)
    \/ \E c \in BagToSet(calls) : diarize_meeting(c)

\* language changes
Language(n) ==
    \/ \E l \in Langs : change_meeting_language_dep(n, l)
    \/ \E c \in BagToSet(calls) : change_meeting_language_same(c)
    \/ \E c \in BagToSet(calls) : change_meeting_language_cached(c)
    \/ \E c \in BagToSet(calls) : change_meeting_language_send(c)
    \/ \E c \in BagToSet(calls) : change_meeting_language_new(c)

\* transcript edits with payloads drawn from P, and cancel
Editing(n, P) ==
    \/ \E p \in P : update_plain_transcript_dep(n, p)
    \/ \E c \in BagToSet(calls) : update_plain_transcript_404(c)
    \/ \E c \in BagToSet(calls), r \in BagToSet(transcripts) :
          update_plain_transcript(c, r)
    \/ cancel_meeting_dep(n)
    \/ \E c \in BagToSet(calls) : cancel_meeting(c)

\* upload_file_chunk is a coroutine whose body has no await between its
\* load and its commit: while a call is inside it, the event loop of the
\* front-end process runs no other coroutine
LoopFree == \A c \in BagToSet(calls) : c.op # "upload"

\* the summary and chat operations, coroutines on the event loop of the
\* front-end, with at most n calls in progress at once and the AI service
\* answering a chat with one of Answers
Analysis(n, Answers) ==
    \/ \E st \in SummaryTypes : LoopFree /\ get_or_generate_summary(n, st)
    \/ \E c \in BagToSet(calls) : LoopFree /\ generate_and_save_summary(c)
    \/ \E a \in Answers : LoopFree /\ chat_with_meeting(a)

\* the AI service answering a question
Question ==
    {[intent |-> "ask_question", entity |-> "none", reply |-> <<"w">>]}

\* the reaper, a coroutine on the event loop of the front-end
Reaper == \E old \in BOOLEAN : LoopFree /\ cleanup_stale_jobs(old)

\* the worker tasks of a Job that is neither edited, nor switched to
\* another language, nor deleted; Acks = {TRUE}: every message is
\* delivered once
Pipeline(Acks) ==
    \/ \E t \in BagToSet(queue) : assemble_audio_task_list(t)
    \/ \E t \in BagToSet(queue), ack \in Acks : assemble_audio_task_list_fail(t, ack)
    \/ \E r \in BagToSet(running), ack \in Acks : assemble_audio_task(r, ack)
    \/ \E t \in BagToSet(queue), ack \in Acks : run_transcription_task(t, ack)
    \/ \E t \in BagToSet(queue), ack \in Acks : run_transcription_task_fail(t, ack)
    \/ \E t \in BagToSet(queue), r \in BagToSet(transcripts) : run_diarization_task_read(t, r)
    \/ \E r \in BagToSet(running), ack \in Acks : run_diarization_task(r, ack)
    \/ \E r \in BagToSet(running), ack \in Acks : run_diarization_task_fail(r, ack)

\* the worker tasks
Workers(Acks) ==
    \/ Pipeline(Acks)
    \/ \E t \in BagToSet(queue), ack \in Acks : run_diarization_task_read_fail(t, ack)

\* one front-end process serving one Controller call at a time, interleaved
\* with the worker processes, the reaper, summaries and chat; every task
\* message delivered once
Next ==
    \/ Stages(1) \/ Language(1) \/ Editing(1, {"segs_a"})
    \/ Workers({TRUE}) \/ Analysis(1, Question) \/ Reaper
Spec == Init /\ [][Next]_vars

\* at-least-once delivery: a task message may be delivered a second time
NextRedelivery ==
    \/ Stages(1) \/ Language(1) \/ Editing(1, {"segs_a"})
    \/ Workers(BOOLEAN) \/ Reaper
SpecRedelivery == Init /\ [][NextRedelivery]_vars

\* a request_id started again after its Job was cancelled
Restart == \E l \in Langs : start_bbh(l, MaxStarts + MaxRestarts)

\* one front-end process, start, upload, diarize, edit and cancel, and a
\* request_id that is started again after a cancel
NextRestart ==
    \/ Stages(1) \/ Restart \/ Editing(1, {"segs_a"})
    \/ Workers({TRUE})
SpecRestart == Init /\ [][NextRestart]_vars

\* NumFrontends front-end processes sharing the store and the broker, each
\* serving one call of the stage triggers, the edit or the cancel at a time
NextConcurrent ==
    \/ Stages(NumFrontends) \/ Editing(NumFrontends, EditPayloads)
    \/ Workers({TRUE})
SpecConcurrent == Init /\ [][NextConcurrent]_vars

\* one front-end process whose event loop interleaves up to MaxAnalysis
\* summary and chat calls at their awaits, with the stage triggers, the
\* edit, the cancel and the worker tasks
NextAnalysis ==
    \/ Stages(1) \/ Editing(1, EditPayloads) \/ Workers({TRUE})
    \/ Analysis(MaxAnalysis, Question)
SpecAnalysis == Init /\ [][NextAnalysis]_vars

\* one front-end process whose summary and chat calls run one at a time,
\* the AI service answering a chat in every way, with the stage triggers
\* and the worker tasks
NextChat == Stages(1) \/ Pipeline({TRUE}) \/ Analysis(1, AiAnswers)
SpecChat == Init /\ [][NextChat]_vars

\* calls of a user who does not own the Job
Guest(n) ==
    \E c \in ChunkNames, last \in BOOLEAN :
        upload_file_chunk_load(n, "guest", c, last)

\* one front-end process serving the owner of the Job and another user
NextOwnership ==
    \/ Stages(1) \/ Guest(1) \/ Editing(1, EditPayloads) \/ Workers({TRUE})
SpecOwnership == Init /\ [][NextOwnership]_vars

\* the listeners and the streaming clients of the front-end processes
Streaming ==
    \/ \E p \in Procs : redis_listener_subscribe(p)
    \/ \E p \in Procs : redis_listener(p)
    \/ \E p \in Procs, request_id \in RequestIds :
          websocket_endpoint(p, request_id)
    \/ \E p \in Procs, request_id \in RequestIds, i \in 1 .. MaxHandles :
          websocket_disconnect(p, request_id, i)

\* NumFrontends front-end processes with their listeners and streaming
\* clients, one call at a time of the stage triggers, and the worker tasks
NextStream ==
    \/ Stages(1) \/ Pipeline({TRUE}) \/ Streaming
SpecStream == Init /\ [][NextStream]_vars

\* a task message that is dropped before a worker takes it (the broker, a
\* Redis instance, loses it)
task_lost(t) ==
    /\ t \in BagToSet(queue)
    /\ queue' = Unqueue(t)
    /\ UNCHANGED <<dbVars, fsVars, running, calls, redelivered>>
    /\ published' = <<>>
    /\ channel' = Relayed(published')
    /\ UNCHANGED active_connections
    /\ summary_content' = Kept(summaries')
    /\ UNCHANGED chat_call
    /\ UNCHANGED mapperVars
    /\ UNCHANGED listingVars
    /\ UNCHANGED closed

\* a worker process that dies inside a task: the execution ends without
\* commit and, task_reject_on_worker_lost not being set, the message is
\* not delivered again
worker_lost(r) ==
    /\ r \in BagToSet(running)
    /\ running' = running (-) SetToBag({r})
    /\ UNCHANGED <<dbVars, fsVars, queue, calls, redelivered>>
    /\ published' = <<>>
    /\ channel' = Relayed(published')
    /\ UNCHANGED active_connections
    /\ summary_content' = Kept(summaries')
    /\ UNCHANGED chat_call
    /\ UNCHANGED mapperVars
    /\ UNCHANGED listingVars
    /\ UNCHANGED closed

\* lost tasks and crashed workers
Loss ==
    \/ \E t \in BagToSet(queue) : task_lost(t)
    \/ \E r \in BagToSet(running) : worker_lost(r)

\* a pass of the reaper that runs when created_at has become older than the
\* threshold
ReaperPass == LoopFree /\ cleanup_stale_jobs(TRUE)

\* a request handler that has loaded its job runs to its end
Returns ==
    \/ \E c \in BagToSet(calls) : upload_file_chunk_store(c)
    \/ \E c \in BagToSet(calls) : diarize_meeting(c)

\* the stage triggers, the worker tasks, lost tasks and the reaper.  The
\* handlers return and the workers take every task that stays queued (weak
\* fairness); the reaper
\* loop wakes up every six hours for ever and its pass runs between two
\* request handlers of the event loop, so a pass that is possible again and
\* again is eventually made (strong fairness)
NextLive == Stages(1) \/ Pipeline({TRUE}) \/ Loss \/ Reaper
SpecLive ==
    /\ Init
    /\ [][NextLive]_vars
    /\ WF_vars(Returns)
    /\ WF_vars(Pipeline({TRUE}))
    /\ SF_vars(ReaperPass)

\* the except branch of run_transcription_task taken step by step: the
\* publication, then the commit
FailurePublish(Acks) ==
    \/ \E t \in BagToSet(queue) : run_transcription_task_fail_publish(t)
    \/ \E r \in BagToSet(running), ack \in Acks :
          run_transcription_task_fail_commit(r, ack)

\* the stage triggers, the edit and the worker tasks, with the publication
\* and the commit of a failed transcription as separate steps
NextPublish ==
    \/ Stages(1) \/ Editing(1, EditPayloads) \/ Workers({TRUE})
    \/ FailurePublish({TRUE})
SpecPublish == Init /\ [][NextPublish]_vars

\* the chunk order computed for every listing within the bounds
NextAssemble == assemble_audio_task_sorted
SpecAssemble == InitAssemble /\ [][NextAssemble]_vars

\* the mapper applied to every pair of timelines within the bounds
NextMapper == map_speaker_to_text_return
SpecMapper == InitMapper /\ [][NextMapper]_vars

\* the mapper applied to the timelines of one speaker
SpecBoundary == InitBoundary /\ [][NextMapper]_vars

\* --------------------------------------------------------------- properties

\* the messages of kind k in a bag of task messages or task executions
OfKind(b, k) == [m \in {x \in DOMAIN b : x.kind = k} |-> b[m]]

\* the Controller call c commits or returns in this step
Ends(c) == c \in BagToSet(calls) /\ calls' = calls (-) SetToBag({c})

\* C1: every change of a Job's status follows an edge of the status machine:
\* uploading->assembling, assembling->transcribing,
\* transcribing->transcription_complete, transcription_complete->diarizing,
\* diarizing->completed, transcription_complete->transcribing, a revert to
\* transcription_complete by an owner edit or a cached language change, or
\* a non-terminal status to failed; nothing moves a job out of failed and no
\* worker write moves diarizing or completed back to transcription_complete.
C1_StatusMachine ==
    [][LET a == job.status
           b == job'.status
       IN  (job.exists /\ job'.exists /\ job'.id = job.id /\ b # a) =>
             \/ <<a, b>> \in {<<"uploading", "assembling">>,
                              <<"assembling", "transcribing">>,
                              <<"transcribing", "transcription_complete">>,
                              <<"transcription_complete", "diarizing">>,
                              <<"diarizing", "completed">>,
                              <<"transcription_complete", "transcribing">>}
             \/ b = "failed" /\ a \notin {"completed", "failed"}
             \/ /\ b = "transcription_complete"
                /\ a # "failed"
                /\ \E c \in BagToSet(calls) :
                      c.op \in {"edit", "language"} /\ Ends(c)
      ]_vars

\* C2: an assemble task is enqueued only by the call that takes the stored
\* status from uploading to assembling, so that concurrent uploads of a last
\* chunk make at most one such transition and enqueue at most one task.
C2_SingleAssembly ==
    [][\A c \in BagToSet(calls) :
          (c.op = "upload" /\ Ends(c) /\ queue' # queue) =>
              job.status = "uploading" /\ job'.status = "assembling"
      ]_vars

\* C3: at most one transcription task and at most one diarization task of
\* the Job is queued or running at any time.
C3_OneTaskInFlight ==
    /\ BagCardinality(OfKind(queue, "transcribe")) <= 1
    /\ BagCardinality(OfKind(queue, "diarize"))
         + BagCardinality(OfKind(running, "diarize")) <= 1

\* C4: an execution of the assemble task once the status is past assembling,
\* and an execution of the transcription task for a language whose
\* Transcription is already stored, change neither the status, nor the
\* transcripts, nor the files of the job directory.
C4_RedeliveryChangesNothing ==
    [][LET past == {"transcribing", "transcription_complete", "diarizing",
                    "completed"}
           assembling ==
               \/ \E t \in BagToSet(queue) : assemble_audio_task_list(t)
               \/ \E t \in BagToSet(queue), ack \in BOOLEAN :
                     assemble_audio_task_list_fail(t, ack)
               \/ \E r \in BagToSet(running), ack \in BOOLEAN :
                     assemble_audio_task(r, ack)
           transcribing ==
               \E t \in BagToSet(queue), ack \in BOOLEAN :
                   /\ RowExists(t.job_id)
                   /\ RowsOf(t.language) # {}
                   /\ \/ run_transcription_task(t, ack)
                      \/ run_transcription_task_fail(t, ack)
       IN  (\/ job.exists /\ job.status \in past /\ assembling
            \/ transcribing)
               => UNCHANGED <<job, transcripts, diarized, fsVars>>
      ]_vars

\* C5: a Job has at most one Transcription per language.
C5_OneTranscriptPerLanguage ==
    \A l \in Langs :
        BagCardinality([r \in RowsOf(l) |-> transcripts[r]]) <= 1

\* C6: when the diarization task finishes its computation for a Job that
\* already has a DiarizedTranscript, the new result replaces the prior one:
\* afterwards exactly one DiarizedTranscript exists, it is the new one, and
\* the status is completed.
C6_DiarizationReplaces ==
    [][\A r \in BagToSet(running), ack \in BOOLEAN :
          (run_diarization_task(r, ack) /\ RowExists(r.job_id)
              /\ diarized # <<>>) =>
              /\ diarized' = <<DiarizedTranscript(r.language, r.data)>>
              /\ job'.status = "completed"
      ]_vars

\* C7: after a committed edit of the plain transcript of a Job whose status
\* was transcription_complete, diarizing, completed or failed, the
\* active-language Transcription holds the new segments, the Job has no
\* DiarizedTranscript, no Summary and no chat history, and its status is
\* transcription_complete.
C7_EditPostcondition ==
    [][\A c \in BagToSet(calls), r \in BagToSet(transcripts) :
          (update_plain_transcript(c, r)
              /\ job.status \in {"transcription_complete", "diarizing",
                                 "completed", "failed"}) =>
              /\ Transcription(job'.language, c.arg, TRUE) \in BagToSet(transcripts')
              /\ diarized' = <<>>
              /\ \A t \in SummaryTypes : summaries'[t] = 0
              /\ chat_history' = 0
              /\ job'.status = "transcription_complete"
      ]_vars

\* C8: after a committed change of the active language, cached or not, the
\* Job has no DiarizedTranscript.
C8_LanguageChangeDropsDiarized ==
    [][\A c \in BagToSet(calls) :
          (\/ change_meeting_language_cached(c)
           \/ change_meeting_language_new(c) /\ job'.language = c.arg) =>
              diarized' = <<>>
      ]_vars

\* C9: the diarization task installs its result as the DiarizedTranscript
\* only when the words it read are still the words of a stored Transcription
\* of that language: an edit committed while the task was computing keeps
\* the result out.
C9_NoStaleDiarization ==
    [][\A r \in BagToSet(running), ack \in BOOLEAN :
          (run_diarization_task(r, ack) /\ diarized' # diarized) =>
              \E row \in RowsOf(r.language) :
                  row.transcript_data = r.data
      ]_vars

\* C10: a Job that has a DiarizedTranscript has a Transcription for its
\* active language.
C10_DiarizedHasTranscript ==
    (job.exists /\ diarized # <<>>) => RowsOf(job.language) # {}

\* C11: whenever the assembly of a Job has succeeded (status transcribing,
\* transcription_complete, diarizing or completed), the Job has a
\* Transcription for its active language or a transcription task for that
\* language is queued or running.
C11_ActiveLanguageCovered ==
    (job.exists /\ job.status \in {"transcribing", "transcription_complete",
                                   "diarizing", "completed"}) =>
        \/ RowsOf(job.language) # {}
        \/ \E t \in BagToSet(queue) :
              t.kind = "transcribe" /\ t.job_id = job.id
                                    /\ t.language = job.language

\* C12: a committed change of the language to one that differs from the
\* current one sets the active language to it; with a Transcription stored
\* for the new language the status becomes transcription_complete and no
\* task is enqueued; otherwise exactly one transcription task for the new
\* language is enqueued and the status becomes transcribing.
C12_ChangeLanguageEffect ==
    [][\A c \in BagToSet(calls) :
          /\ change_meeting_language_cached(c) =>
                /\ job'.language = c.arg
                /\ job'.status = "transcription_complete"
                /\ queue' = queue
          /\ (change_meeting_language_send(c) /\ fullWav) =>
                queue' = queue (+) SetToBag({Task("transcribe", job.id, c.arg)})
          /\ (change_meeting_language_new(c) /\ RowExists(c.job_id)) =>
                /\ job'.language = c.arg
                /\ job'.status = "transcribing"
                /\ queue' = queue
      ]_vars

\* C13: a diarization request that is accepted finds the Job in status
\* transcription_complete with its assembled audio present, sets the status
\* to diarizing and enqueues exactly one diarization task; a request that
\* is not accepted changes neither the Job nor the queue.
C13_DiarizeOnlyWhenTranscribed ==
    [][\A c \in BagToSet(calls) :
          diarize_meeting(c) =>
              IF queue' # queue
              THEN /\ job.status = "transcription_complete"
                   /\ fullWav
                   /\ job'.status = "diarizing"
                   /\ queue' = queue (+) SetToBag({Task("diarize", job.id, "none")})
              ELSE job' = job
      ]_vars

\* C14: when a request handler puts a stage task on the queue, the status
\* that goes with the task (assembling for assemble, transcribing for
\* transcribe, diarizing for diarize) is the committed status of the Job at
\* the moment the task becomes visible to the workers.
C14_StatusCommittedBeforeTask ==
    [][\A t \in BagToSet(queue') :
          (calls' # calls /\ queue' = queue (+) SetToBag({t})) =>
              /\ job'.exists
              /\ job'.status = CASE t.kind = "assemble" -> "assembling"
                                 [] t.kind = "transcribe" -> "transcribing"
                                 [] t.kind = "diarize" -> "diarizing"
      ]_vars

\* C15: the Job row is deleted only by a cancel request, and only while the
\* committed status of the Job is uploading or assembling.
C15_DeleteOnlyWhileCancellable ==
    [][(job.exists /\ ~job'.exists) =>
          /\ \E c \in BagToSet(calls) : cancel_meeting(c)
          /\ job.status \in cancellable_states
      ]_vars

\* C16: a worker step that executes a task of a Job that no longer exists
\* (the Job it was sent for has been cancelled) creates no Job, writes no
\* Transcription or DiarizedTranscript, creates no directory, and puts no
\* further task on the queue.
C16_OrphanTaskWritesNothing ==
    [][/\ \A t \in BagToSet(queue) :
            (/\ ~RowExists(t.job_id)
             /\ \E ack \in BOOLEAN :
                   \/ assemble_audio_task_list_fail(t, ack)
                   \/ run_transcription_task(t, ack)
                   \/ run_transcription_task_fail(t, ack)
                   \/ run_diarization_task_read_fail(t, ack))
            => /\ job'.exists => job.exists
               /\ UNCHANGED <<transcripts, diarized>>
               /\ dirExists' => dirExists
               /\ queue' \sqsubseteq queue
       /\ \A r \in BagToSet(running) :
            (/\ ~RowExists(r.job_id)
             /\ \E ack \in BOOLEAN :
                   \/ assemble_audio_task(r, ack)
                   \/ run_diarization_task(r, ack)
                   \/ run_diarization_task_fail(r, ack))
            => /\ job'.exists => job.exists
               /\ UNCHANGED <<transcripts, diarized>>
               /\ dirExists' => dirExists
               /\ queue' \sqsubseteq queue
      ]_vars

\* GET /{request_id}/status: 404 from get_owned_job_from_path when no row
\* has the request_id, the formatted Job otherwise
get_meeting_status == IF job.exists THEN job.status ELSE "not_found"

C18_ReaperVerdictStands ==
    [][(/\ job.exists
        /\ job.status = "failed"
        /\ job.error_message = "timeout"
        /\ calls' = calls
        /\ (queue' # queue \/ running' # running)) =>
              UNCHANGED <<job, transcripts, diarized>>
      ]_vars

C20_RequestIdNeverReused ==
    [][lastJobId' # lastJobId => lastJobId = 0]_vars

\* C21: at most one Summary row is stored for the Job and each summary_type.
C21_OneSummaryPerType ==
    \A st \in SummaryTypes : summaries[st] <= 1

\* C22: when an assemble task succeeds, the Job directory holds the
\* assembled <stem>_full.wav and no chunk file.
C22_OnlyFullWavAfterAssembly ==
    [][\A r \in BagToSet(running) :
          (/\ \E ack \in BOOLEAN : assemble_audio_task(r, ack)
           /\ job.exists
           /\ job'.status = "transcribing")
          => (fullWav' /\ chunks' = {})
      ]_vars

\* C23: an upload whose chunk filename is already stored in the Job
\* directory is rejected: it changes neither the Job, nor the queue, nor
\* the files.
C23_DuplicateChunkRejected ==
    [][\A c \in BagToSet(calls) :
          (upload_file_chunk_store(c) /\ dirExists /\ c.chunk \in chunks)
          => UNCHANGED <<job, queue, fsVars>>
      ]_vars

\* C24: a Controller call changes the stored rows, the files or the queue
\* only when its caller is the owner of the Job.
C24_OnlyOwnerMutates ==
    [][\A c \in BagToSet(calls) :
          (Ends(c) /\ (dbVars' # dbVars \/ fsVars' # fsVars \/ queue' # queue))
          => c.user = job.user_id
      ]_vars

\* C25: the updates a step publishes on job_updates are queued, in the
\* order of publication, for every subscribed listener, and a listener that
\* processes its oldest update sends exactly that update to every handle
\* registered under the request_id in its process at that moment, before it
\* reads the next one.
C25_BroadcastInOrder ==
    [][/\ published' # <<>> =>
            \A p \in DOMAIN channel : channel'[p] = channel[p] \o published'
       /\ \A p \in Procs :
            redis_listener(p) =>
                /\ channel[p] = <<Head(channel[p])>> \o channel'[p]
                /\ DOMAIN active_connections'[p] = DOMAIN active_connections[p]
                /\ "R" \in DOMAIN active_connections[p] =>
                      /\ Len(active_connections'[p]["R"])
                             = Len(active_connections[p]["R"])
                      /\ \A i \in DOMAIN active_connections[p]["R"] :
                            active_connections'[p]["R"][i] =
                                Append(active_connections[p]["R"][i],
                                       Head(channel[p]))
      ]_vars

\* C26: with several front-end processes, the status a request handler
\* commits for the Job reaches the streaming clients of every process: when
\* the handler ends, every registered handle has that status as its last
\* message.
C26_UpdateReachesEveryProcess ==
    [][\A c \in BagToSet(calls) :
          (Ends(c) /\ job'.exists /\ job'.status # job.status) =>
              \A h \in JobHandles :
                  LET log == active_connections'[h[1]][h[2]][h[3]] IN
                  log # <<>> /\ log[Len(log)] = job'.status
      ]_vars

\* C27: a handle registered while the Job was uploading is never sent one
\* of the statuses uploading, assembling, transcribing,
\* transcription_complete, diarizing, completed after a later one of them,
\* and once the listener of every process is subscribed and no call, no
\* task and no update is in progress or in flight, it has been sent every
\* status of the sequence up to the one the Job has.
C27_StatusesInOrder ==
    \A h \in JobHandles :
        LET log == Log(h)
            rank == [s \in {"uploading", "assembling", "transcribing",
                            "transcription_complete", "diarizing", "completed"}
                     |-> CASE s = "uploading" -> 1
                           [] s = "assembling" -> 2
                           [] s = "transcribing" -> 3
                           [] s = "transcription_complete" -> 4
                           [] s = "diarizing" -> 5
                           [] s = "completed" -> 6]
            quiet == /\ DOMAIN channel = Procs
                     /\ \A p \in Procs : channel[p] = <<>>
                     /\ queue = EmptyBag
                     /\ running = EmptyBag
                     /\ calls = EmptyBag
        IN  (log # <<>> /\ log[1] = "uploading"
             /\ \A i \in DOMAIN log : log[i] \in DOMAIN rank)
            => /\ \A i \in DOMAIN log, j \in DOMAIN log :
                     i < j => rank[log[i]] < rank[log[j]]
               /\ (quiet /\ job.exists /\ job.status \in DOMAIN rank) =>
                     \A s \in DOMAIN rank :
                         rank[s] <= rank[job.status] =>
                             \E i \in DOMAIN log : log[i] = s

\* the timelines of the call are both sorted by start
SortedInput ==
    /\ \A i \in DOMAIN diarization_output, j \in DOMAIN diarization_output :
          i < j => diarization_output[i].start_s <= diarization_output[j].start_s
    /\ \A i \in DOMAIN word_level_transcript, j \in DOMAIN word_level_transcript :
          i < j => word_level_transcript[i].start <= word_level_transcript[j].start

\* C28: on sorted timelines, every segment the mapper emits has the
\* speaker, start and end of one input speaker segment, and every word of its
\* text has its center time between that start and that end.
C28_WordsInsideSegment ==
    (mapper_pc = "returned" /\ SortedInput) =>
        \A n \in DOMAIN final_diarized_transcript :
            LET e == final_diarized_transcript[n] IN
            /\ \E k \in DOMAIN diarization_output :
                  /\ e.speaker = diarization_output[k].speaker
                  /\ e.start_time = diarization_output[k].start_s
                  /\ e.end_time = diarization_output[k].end_s
            /\ \A x \in DOMAIN e.text :
                  LET w == word_level_transcript[e.text[x]] IN
                  /\ 2 * e.start_time <= w.start + w.end
                  /\ w.start + w.end <= 2 * e.end_time

\* C28, its case: on sorted timelines the mapper has returned a segment that
\* does not start at time 0 and holds two words
C28_Mapped ==
    /\ mapper_pc = "returned"
    /\ SortedInput
    /\ \E n \in DOMAIN final_diarized_transcript :
          /\ final_diarized_transcript[n].start_time > 0
          /\ Len(final_diarized_transcript[n].text) = 2

C30_ResponseIsStoredContent ==
    [][(/\ chat_history' = chat_history + 2
        /\ chat_call'.intent = "edit_summary"
        /\ chat_call'.entity # "none"
        /\ chat_call'.summary_record # 0)
       => LET raw == chat_call'.new_summary_content_raw
              stored ==
                  summary_content'[chat_call'.entity][chat_call'.summary_record]
          IN  /\ stored = IF update_pattern_match(raw)
                          THEN strip(update_pattern_group2(raw))
                          ELSE raw
              /\ chat_call'.final_response_to_user = stored]_vars

\* ------------------------------------------------------------------- C31
\* the rows of the store
Store == [job |-> job, transcripts |-> transcripts, diarized |-> diarized,
          summaries |-> summaries, chat_history |-> chat_history]

\* the Transcription rows of the active language in store db
ActiveRows(db) ==
    {r \in BagToSet(db.transcripts) : r.language = db.job.language}

\* update_plain_transcript, dependency and body run without another step in
\* between, on store db, with .first() returning row r (lines 469-512)
update_plain_transcript_commit(db, segments, r) ==
    [job |-> IF db.diarized # <<>>
             THEN [db.job EXCEPT !.status = "transcription_complete"]
             ELSE db.job,
     transcripts |-> (db.transcripts (-) SetToBag({r}))
                        (+) SetToBag({Transcription(r.language, segments, TRUE)}),
     diarized |-> <<>>,
     summaries |-> [t \in SummaryTypes |-> 0],
     chat_history |-> 0]

\* the stores one update_plain_transcript call can leave: db itself when the
\* call is rejected (404), else one store per row .first() may return
update_plain_transcript_results(db, segments) ==
    IF ~db.job.exists \/ ActiveRows(db) = {}
    THEN {db}
    ELSE {update_plain_transcript_commit(db, segments, r) : r \in ActiveRows(db)}

\* the stores in which summaries and chat entries were added to db by
\* get_or_generate_summary and chat_with_meeting
WithAnalysis(db) ==
    {[db EXCEPT !.summaries = s, !.chat_history = h] :
        s \in [SummaryTypes -> 0..1], h \in {0, 2}}

\* C31: in every reachable state, a call of update_plain_transcript with
\* payload P1 followed, after summaries and chat entries were or were not
\* created, by a call with payload P2 leaves the Job as a single call with
\* P2 does: same Transcription rows and is_edited, no Summary, no
\* ChatHistory, no DiarizedTranscript, same status.
C31_EditTwiceIsEditOnce ==
    \A P1 \in EditPayloads, P2 \in EditPayloads :
        \A d1 \in update_plain_transcript_results(Store, P1) :
            \A g \in (IF d1 = Store THEN {d1} ELSE WithAnalysis(d1)) :
                update_plain_transcript_results(g, P2)
                    = update_plain_transcript_results(Store, P2)

\* the body of update_plain_transcript, run right after its dependency,
\* leaves the store update_plain_transcript_commit computes
EditStepIsCommit ==
    [][\A c \in BagToSet(calls), r \in RowsOf(job.language) :
          (c.op = "edit" /\ c.status = job.status /\ c.language = job.language
           /\ update_plain_transcript(c, r))
          => Store' = update_plain_transcript_commit(Store, c.arg, r)]_vars

\* ------------------------------------------------------------------- C32
\* C32: in every reachable state in which the status of the Job is
\* transcription_complete, diarizing or completed, a Transcription row
\* exists for the language of the Job.
C32_TranscriptOfActiveLanguage ==
    (job.exists /\ job.status \in {"transcription_complete", "diarizing",
                                   "completed"})
        => RowsOf(job.language) # {}

C35_ViewNotOlderThanStore ==
    LET quiet == /\ \A p \in DOMAIN channel : channel[p] = <<>>
                 /\ queue = EmptyBag
                 /\ running = EmptyBag
                 /\ calls = EmptyBag
    IN  (quiet /\ job.exists) =>
            \A h \in JobHandles :
                LET log == Log(h) IN
                log # <<>> /\ log[Len(log)] = job.status

\* ------------------------------------------------------------------- C36
\* C36: when a worker publishes an update that carries status S for the
\* Job, the store holds status S for the Job as committed state: a step
\* that publishes leaves the Job with the status of its last update.
C36_PublishedIsCommitted ==
    [][published' # <<>> =>
          /\ job'.exists
          /\ job'.status = published'[Len(published')]]_vars

\* ------------------------------------------------------------------- C37
\* C37: under fairness of the workers and of the reaper, a Job whose status
\* is uploading, assembling, transcribing or diarizing eventually has a
\* status outside that set or is deleted, also when a task message is lost
\* or a worker dies.
C37_NoJobInProgressForever ==
    (job.exists /\ job.status \in stale_states)
        ~> (~job.exists \/ job.status \notin stale_states)

\* the reaper has failed a Job whose assemble task was lost: the chunks are
\* still there, no assembled audio, no task left
C37_ReapedAfterLoss ==
    /\ job.exists
    /\ job.status = "failed"
    /\ job.error_message = "timeout"
    /\ chunks # {}
    /\ ~fullWav
    /\ queue = EmptyBag
    /\ running = EmptyBag
    /\ calls = EmptyBag

\* ------------------------------------------------------------------- C38
\* the listings that hold the files of listing l in another order
Reordered(l) ==
    {[i \in DOMAIN l |-> l[p[i]]] :
        p \in {q \in [DOMAIN l -> DOMAIN l] :
                 \A i \in DOMAIN l, j \in DOMAIN l : i # j => q[i] # q[j]}}

\* C38: chunk_files holds the chunk files in ascending order of their
\* numeric suffix, and it is the same for every order in which the
\* directory yields the same set of files.
C38_OrderDependsOnNamesOnly ==
    assemble_pc = "sorted" =>
        /\ \A i \in DOMAIN sorted_chunk_files, j \in DOMAIN sorted_chunk_files :
              i < j => int(sorted_chunk_files[i].suffix)
                          <= int(sorted_chunk_files[j].suffix)
        /\ \A l \in Reordered(session_dir) :
              sorted(ChunksOf(l)) = sorted_chunk_files

\* the same, for directories whose chunk files have pairwise different
\* numeric suffixes
DistinctSuffixes ==
    \A i \in DOMAIN session_dir, j \in DOMAIN session_dir :
        (i # j /\ isdigit(session_dir[i].suffix) /\ isdigit(session_dir[j].suffix))
            => int(session_dir[i].suffix) # int(session_dir[j].suffix)
OrderOfDistinctSuffixes == DistinctSuffixes => C38_OrderDependsOnNamesOnly

\* ------------------------------------------------------------------- C39
\* the words of the call are in the order of their center times
CentersInOrder ==
    \A i \in DOMAIN word_level_transcript, j \in DOMAIN word_level_transcript :
        i < j => Center2(word_level_transcript[i])
                    <= Center2(word_level_transcript[j])

\* word k of the call is in the text of an emitted segment that has the
\* speaker, start and end of the speaker segment g, and in no other
AssignedOnlyTo(k, g) ==
    LET of_g(e) == /\ e.speaker = g.speaker
                   /\ e.start_time = g.start_s
                   /\ e.end_time = g.end_s
        holds(e) == \E x \in DOMAIN e.text : e.text[x] = k
    IN  /\ \E n \in DOMAIN final_diarized_transcript :
              of_g(final_diarized_transcript[n])
              /\ holds(final_diarized_transcript[n])
        /\ \A n \in DOMAIN final_diarized_transcript :
              holds(final_diarized_transcript[n])
                  => of_g(final_diarized_transcript[n])

\* word k is centred on the boundary that speaker segment n shares with
\* the next one, a different segment
OnBoundary(n, k) ==
    /\ n + 1 \in DOMAIN diarization_output
    /\ diarization_output[n].end_s = diarization_output[n + 1].start_s
    /\ diarization_output[n] # diarization_output[n + 1]
    /\ Center2(word_level_transcript[k]) = 2 * diarization_output[n].end_s

\* C39 as stated: on timelines sorted by start, a word whose center time is
\* the boundary shared by two consecutive speaker segments is assigned to
\* the earlier of the two and not to the later one.
C39_BoundaryWordToEarlier ==
    (mapper_pc = "returned" /\ SortedInput) =>
        \A n \in DOMAIN diarization_output, k \in DOMAIN word_level_transcript :
            OnBoundary(n, k) => AssignedOnlyTo(k, diarization_output[n])

\* C39 amended: on timelines sorted by start, a word whose center time is
\* the boundary shared by two consecutive speaker segments is assigned to
\* the earlier of the two and not to the later one, provided the words are
\* in the order of their center times and every speaker segment before the
\* two ends before the boundary.
C39_BoundaryWordInOrder ==
    (mapper_pc = "returned" /\ SortedInput /\ CentersInOrder) =>
        \A n \in DOMAIN diarization_output, k \in DOMAIN word_level_transcript :
            (/\ OnBoundary(n, k)
             /\ \A m \in 1 .. (n - 1) :
                   diarization_output[m].end_s < diarization_output[n].end_s)
            => AssignedOnlyTo(k, diarization_output[n])

\* C39, its case: three speaker segments, the first ending before the
\* boundary of the second and the third; the first word is centred on that
\* boundary and the second word after it, and the mapper has returned a
\* segment for each of the last two speaker segments
C39_WordOnBoundary ==
    /\ mapper_pc = "returned"
    /\ SortedInput
    /\ CentersInOrder
    /\ Len(diarization_output) = 3
    /\ diarization_output[1].end_s < diarization_output[2].end_s
    /\ Len(word_level_transcript) = 2
    /\ OnBoundary(2, 1)
    /\ Center2(word_level_transcript[1]) < Center2(word_level_transcript[2])
    /\ Len(final_diarized_transcript) = 2

\* ------------------------------------------------------------------- C40
\* C40: no update of the Job is sent to a handle registered under another
\* request_id; a step that processes the disconnect of a handle leaves the
\* registry with one handle fewer under the request_id of that handle and
\* with every other list as it was; the registry never holds a request_id
\* with an empty list of handles; and nothing is sent to a websocket once
\* its disconnect has been processed.
C40_RegistryHoldsLiveHandlesOnly ==
    [][/\ \A h \in Handles' :
             h[2] # "R" => active_connections'[h[1]][h[2]][h[3]] = <<>>
       /\ \A p \in Procs :
             \A k \in DOMAIN active_connections'[p] :
                 active_connections'[p][k] # <<>>
       /\ \A p \in Procs, request_id \in RequestIds, i \in 1 .. MaxHandles :
             websocket_disconnect(p, request_id, i) =>
                 LET HandlesUnder(reg, q, k) ==
                         IF k \in DOMAIN reg[q] THEN Len(reg[q][k]) ELSE 0
                 IN  \A q \in Procs, k \in RequestIds :
                         HandlesUnder(active_connections', q, k)
                             = IF q = p /\ k = request_id
                               THEN HandlesUnder(active_connections, q, k) - 1
                               ELSE HandlesUnder(active_connections, q, k)
       /\ \A n \in DOMAIN closed :
             /\ n \in DOMAIN closed'
             /\ closed'[n] = closed[n]
       /\ \A n \in DOMAIN closed' :
             closed'[n].request_id # "R" => closed'[n].sent = <<>>
      ]_vars

\* C40, its case: a websocket opened under the request_id of the Job while
\* it was uploading has been disconnected, a handle is registered under
\* another request_id in the same process, and the listener of that process
\* has processed the updates of the workers up to transcription_complete
C40_DisconnectedThenUpdated ==
    \E n \in DOMAIN closed :
        /\ closed[n].request_id = "R"
        /\ closed[n].sent = <<"uploading">>
        /\ \E h \in Handles : h[1] = closed[n].process /\ h[2] = "Q"
        /\ closed[n].process \in DOMAIN channel
        /\ channel[closed[n].process] = <<>>
        /\ job.exists
        /\ job.status = "transcription_complete"

====
